---- MODULE Spec2Model ----
(***************************************************************************)
(* blackroad-zone-manager (src/src/main_module.py): DNS zones and records  *)
(* kept in SQLite, validated, exported to and imported from BIND zone-file *)
(* text, diffed against a provider and fingerprinted.                      *)
(*                                                                         *)
(* A Python str is modelled as a sequence of one-character strings, so     *)
(* that formatting, splitting, matching and comparing are computed the way *)
(* the code computes them.  None is the empty tuple and a present optional *)
(* value x is the one-element tuple <<x>>.                                 *)
(***************************************************************************)
EXTENDS Integers, Sequences, FiniteSets, TLC

VARIABLES
  foreign_keys,  \* the connection's PRAGMA foreign_keys (get_db never sets it)
  db_zones,      \* rows of table zones
  db_records,    \* rows of table records
  zone_seq,      \* AUTOINCREMENT counter of zones.id
  record_seq,    \* AUTOINCREMENT counter of records.id
  zobj,          \* the caller's Zone objects, by handle
  ret,           \* what the last store operation returned or raised
  arg,           \* the argument a pure function is applied to
  result,        \* what it returned (or what it raised)
  pc             \* the function that produced result, "input" before

store_vars == <<foreign_keys, db_zones, db_records, zone_seq, record_seq, zobj, ret>>
pure_vars == <<arg, result, pc>>
vars == <<foreign_keys, db_zones, db_records, zone_seq, record_seq, zobj, ret,
          arg, result, pc>>

None == <<>>
Some(x) == <<x>>

----------------------------------------------------------------------------
(* str                                                                     *)

\* The characters of the model, in code-point order.
Ascii ==
  <<"\t","\n"," ","$","(",")","-",".","0","1","2","3","4","5","6","7","8","9",":",";","@","A","B","C","D","E","F","G","H","I","J","K","L","M","N","O","P","Q","R","S","T","U","V","W","X","Y","Z","_","a","b","c","d","e","f","g","h","i","j","k","l","m","n","o","p","q","r","s","t","u","v","w","x","y","z">>

ascii_lowercase ==
  <<"a","b","c","d","e","f","g","h","i","j","k","l","m","n","o","p","q","r","s","t","u","v","w","x","y","z">>

ascii_uppercase ==
  <<"A","B","C","D","E","F","G","H","I","J","K","L","M","N","O","P","Q","R","S","T","U","V","W","X","Y","Z">>

Digit == {"0","1","2","3","4","5","6","7","8","9"}

HexDigit == Digit \cup {"a","b","c","d","e","f","A","B","C","D","E","F"}

Letter == {ascii_lowercase[i] : i \in DOMAIN ascii_lowercase}
            \cup {ascii_uppercase[i] : i \in DOMAIN ascii_uppercase}

\* str.strip() and str.split() with no argument work on whitespace.
Whitespace == {" ", "\t", "\n"}

Ord(c) == CHOOSE i \in DOMAIN Ascii : Ascii[i] = c

Range(s) == {s[i] : i \in DOMAIN s}

\* str < str: lexicographic on code points, a proper prefix first.
RECURSIVE StrLess(_, _)
StrLess(a, b) ==
  IF b = <<>> THEN FALSE
  ELSE IF a = <<>> THEN TRUE
  ELSE IF a[1] # b[1] THEN Ord(a[1]) < Ord(b[1])
  ELSE StrLess(Tail(a), Tail(b))

\* str.upper(), one character.
upper_char(c) ==
  IF \E i \in DOMAIN ascii_lowercase : ascii_lowercase[i] = c
  THEN ascii_uppercase[CHOOSE i \in DOMAIN ascii_lowercase : ascii_lowercase[i] = c]
  ELSE c

upper(s) == [i \in DOMAIN s |-> upper_char(s[i])]

startswith(s, prefix) ==
  Len(s) >= Len(prefix) /\ SubSeq(s, 1, Len(prefix)) = prefix

\* str.isdigit(): at least one character and all of them digits.
isdigit(s) == s # <<>> /\ Range(s) \subseteq Digit

DigitChars == <<"0","1","2","3","4","5","6","7","8","9">>

DigitValue(c) == (CHOOSE i \in DOMAIN DigitChars : DigitChars[i] = c) - 1

\* int(s) of a string of digits.
RECURSIVE DigitsToInt(_)
DigitsToInt(s) ==
  IF s = <<>> THEN 0
  ELSE 10 * DigitsToInt(SubSeq(s, 1, Len(s) - 1)) + DigitValue(s[Len(s)])

\* str(n) of a natural number, as an f-string formats it.
RECURSIVE NatToStr(_)
NatToStr(n) ==
  IF n < 10 THEN <<DigitChars[n + 1]>>
  ELSE NatToStr(n \div 10) \o <<DigitChars[(n % 10) + 1]>>

\* str(n) of an int.
IntToStr(n) == IF n < 0 THEN <<"-">> \o NatToStr(0 - n) ELSE NatToStr(n)

\* int(s) accepts an optional sign and digits (in groups joined by single
\* underscores); anything else raises ValueError.
RECURSIVE DigitGroups(_)
DigitGroups(s) ==
  /\ s # <<>>
  /\ s[1] \in Digit
  /\ \/ Len(s) = 1
     \/ s[2] = "_" /\ DigitGroups(SubSeq(s, 3, Len(s)))
     \/ s[2] # "_" /\ DigitGroups(Tail(s))

IntBody(s) == IF s # <<>> /\ s[1] \in {"-", "+"} THEN Tail(s) ELSE s

int_ok(s) == DigitGroups(IntBody(s))

int(s) ==
  LET d == SelectSeq(IntBody(s), LAMBDA c : c \in Digit)
  IN IF s[1] = "-" THEN 0 - DigitsToInt(d) ELSE DigitsToInt(d)

----------------------------------------------------------------------------
(* Record management                                                       *)

VALID_TYPES ==
  { <<"A">>, <<"A","A","A","A">>, <<"C","N","A","M","E">>, <<"M","X">>, <<"T","X","T">>, <<"N","S">>, <<"S","O","A">>, <<"S","R","V">>, <<"P","T","R">>, <<"C","A","A">> }

\* The class [a-zA-Z0-9._-].
HostChar == Letter \cup Digit \cup {".", "_", "-"}

\* In a pattern compiled without re.MULTILINE, "$" matches at the end of
\* the string and also just before a newline that ends the string: these
\* are the lengths of the prefixes a pattern "^...$" may have consumed.
DollarEnds(s) ==
  {Len(s)} \cup (IF s # <<>> /\ s[Len(s)] = "\n" THEN {Len(s) - 1} ELSE {})

\* (25[0-5]|2[0-4]\d|[01]?\d\d?), the whole of w.
Octet(w) ==
  \/ Len(w) = 3 /\ w[1] = "2" /\ w[2] = "5" /\ w[3] \in {"0","1","2","3","4","5"}
  \/ Len(w) = 3 /\ w[1] = "2" /\ w[2] \in {"0","1","2","3","4"} /\ w[3] \in Digit
  \/ Len(w) = 3 /\ w[1] \in {"0","1"} /\ w[2] \in Digit /\ w[3] \in Digit
  \/ Len(w) \in {1, 2} /\ Range(w) \subseteq Digit

\* octet\.octet\.octet\.octet, the whole of w.
DottedQuad(w) ==
  \E i, j, k \in DOMAIN w :
    /\ i < j /\ j < k
    /\ w[i] = "." /\ w[j] = "." /\ w[k] = "."
    /\ Octet(SubSeq(w, 1, i - 1))
    /\ Octet(SubSeq(w, i + 1, j - 1))
    /\ Octet(SubSeq(w, j + 1, k - 1))
    /\ Octet(SubSeq(w, k + 1, Len(w)))

\* [0-9a-fA-F:]{2,39}, the whole of w.
HexColons(w) == Len(w) \in 2..39 /\ Range(w) \subseteq (HexDigit \cup {":"})

\* [a-zA-Z0-9._-]+\.?, the whole of w.
HostToken(w) ==
  \E n \in 1..Len(w) :
    /\ \A i \in 1..n : w[i] \in HostChar
    /\ \/ n = Len(w)
       \/ n + 1 = Len(w) /\ w[n + 1] = "."

\* [a-zA-Z0-9._-]+, the whole of w.
NameToken(w) == w # <<>> /\ Range(w) \subseteq HostChar

\* The compiled patterns, by record type; every pattern is "^...$".
_VALIDATORS ==
  [t \in { <<"A">>, <<"A","A","A","A">>, <<"C","N","A","M","E">>, <<"M","X">>, <<"N","S">>, <<"P","T","R">> } |->
     CASE t = <<"A">> -> "ipv4"
       [] t = <<"A","A","A","A">> -> "ipv6"
       [] OTHER -> "host"]

\* pattern.match(s) is not None.
match(pattern, s) ==
  \E e \in DollarEnds(s) :
    LET w == SubSeq(s, 1, e)
    IN CASE pattern = "ipv4" -> DottedQuad(w)
         [] pattern = "ipv6" -> HexColons(w)
         [] pattern = "host" -> HostToken(w)
         [] pattern = "name" -> NameToken(w)

DnsRecord(record_type, name, value, ttl, priority, record_id) ==
  [record_type |-> record_type, name |-> name, value |-> value, ttl |-> ttl,
   priority |-> priority, record_id |-> record_id]

validate_record(record) ==
  LET e1 == IF record.record_type \notin VALID_TYPES
            THEN << <<"Unknown record type", record.record_type>> >> ELSE <<>>
      e2 == IF record.name = <<>>
            THEN << <<"Record name cannot be empty">> >> ELSE <<>>
      e3 == IF record.value = <<>>
            THEN << <<"Record value cannot be empty">> >> ELSE <<>>
      e4 == IF record.ttl < 0
            THEN << <<"TTL must be non-negative", record.ttl>> >> ELSE <<>>
      e5 == IF /\ record.record_type \in DOMAIN _VALIDATORS
               /\ ~match(_VALIDATORS[record.record_type], record.value)
            THEN << <<"Value invalid for type", record.value, record.record_type>> >>
            ELSE <<>>
      e6 == IF record.record_type \in { <<"M","X">>, <<"S","R","V">> } /\ record.priority = None
            THEN << <<"record requires a priority", record.record_type>> >> ELSE <<>>
  IN e1 \o e2 \o e3 \o e4 \o e5 \o e6

----------------------------------------------------------------------------
(* validate_record applied to one record                                   *)

StoreIdle ==
  /\ foreign_keys = FALSE
  /\ db_zones = {}
  /\ db_records = {}
  /\ zone_seq = 0
  /\ record_seq = 0
  /\ zobj = <<>>
  /\ ret = None

SampleTypes == VALID_TYPES \cup { <<"X">>, <<"m","x">> }

SampleNames == { <<>>, <<"w","w","w">> }

SampleValues ==
  { <<>>, <<"1",".","2",".","3",".","4">>, <<"1",".","2",".","3",".","2","5","6">>, <<"1",".","2",".","3">>, <<"1",".","2",".","3",".","4","\n">>,
    <<"h",".">>, <<"h"," ","h">>, <<"h","\n">>, <<":",":","1">>, <<":",":","\n">> }

SampleTtls == {-1, 0, 300}

SamplePriorities == {None, Some(10)}

RecordInputs ==
  { DnsRecord(t, n, v, ttl, p, None) :
      t \in SampleTypes, n \in SampleNames, v \in SampleValues,
      ttl \in SampleTtls, p \in SamplePriorities }

RecordInit ==
  /\ StoreIdle
  /\ arg \in RecordInputs
  /\ result = None
  /\ pc = "input"

ValidateRecord ==
  /\ pc = "input"
  /\ result' = validate_record(arg)
  /\ pc' = "validate_record"
  /\ UNCHANGED <<arg, store_vars>>

SpecRecord == RecordInit /\ [][ValidateRecord]_vars

\* The syntax rule of a record type, as the specification words it: A is a
\* dotted quad with each octet 0-255, AAAA a hex-and-colon string of length
\* 2-39, CNAME, MX, NS and PTR a hostname-like token (letters, digits, dot,
\* hyphen, underscore, optional trailing dot).
SyntaxRule(record_type, value) ==
  CASE record_type = <<"A">> -> DottedQuad(value)
    [] record_type = <<"A","A","A","A">> -> HexColons(value)
    [] record_type \in { <<"C","N","A","M","E">>, <<"M","X">>, <<"N","S">>, <<"P","T","R">> } -> HostToken(value)
    [] OTHER -> TRUE

\* The checks of validate_record that a record fails.
FailedChecks(r) ==
  {c \in 1..6 :
     CASE c = 1 -> r.record_type \notin VALID_TYPES
       [] c = 2 -> r.name = <<>>
       [] c = 3 -> r.value = <<>>
       [] c = 4 -> r.ttl < 0
       [] c = 5 -> ~SyntaxRule(r.record_type, r.value)
       [] c = 6 -> r.record_type \in { <<"M","X">>, <<"S","R","V">> } /\ r.priority = None}

\* C5: validate_record(r) is empty if and only if r.record_type is one of
\* the ten recognized types, name and value are non-empty, ttl >= 0, the
\* value matches the type's syntax rule when the type has one, and priority
\* is present for MX and SRV; every failed check contributes its own message.
C5_ValidateRecordIff ==
  pc = "validate_record" =>
    /\ (result = <<>>) <=> (FailedChecks(arg) = {})
    /\ Len(result) = Cardinality(FailedChecks(arg))

\* C5 on values that do not end in a newline.
C5_ValidateRecordIffNoNewline ==
  (pc = "validate_record" /\ "\n" \notin Range(arg.value)) =>
    /\ (result = <<>>) <=> (FailedChecks(arg) = {})
    /\ Len(result) = Cardinality(FailedChecks(arg))

----------------------------------------------------------------------------
(* Zone validation                                                         *)

Zone(name, ttl, serial, nameservers, recs, zone_id) ==
  [name |-> name, ttl |-> ttl, serial |-> serial, nameservers |-> nameservers,
   records |-> recs, zone_id |-> zone_id]

\* The default of Zone.ttl.
DefaultZoneTtl == 3600

\* The default of DnsRecord.ttl.
DefaultRecordTtl == 300

\* The default of Zone.nameservers.
DefaultNameservers == << <<"n","s","1",".","b","l","a","c","k","r","o","a","d",".","i","o",".">>, <<"n","s","2",".","b","l","a","c","k","r","o","a","d",".","i","o",".">> >>

\* The elements of a set as a list; Python leaves the iteration order of a
\* set of str open, one order stands for it.
SetToSeq(S) == CHOOSE s \in [1..Cardinality(S) -> S] : Range(s) = S

\* The errors of the records of a zone, each prefixed with the type and the
\* name of its record, in the order of zone.records.
RECURSIVE RecordErrors(_)
RecordErrors(recs) ==
  IF recs = <<>> THEN <<>>
  ELSE LET rec == Head(recs)
           rec_errors == validate_record(rec)
       IN [i \in DOMAIN rec_errors |->
             <<"Record", rec.record_type, rec.name, rec_errors[i]>>]
            \o RecordErrors(Tail(recs))

validate_zone(zone) ==
  LET e1 == IF zone.name = <<>> THEN << <<"Zone name is required">> >> ELSE <<>>
      e2 == IF ~match("name", zone.name)
            THEN << <<"Invalid zone name", zone.name>> >> ELSE <<>>
      e3 == IF zone.ttl < 0
            THEN << <<"Default TTL must be non-negative", zone.ttl>> >> ELSE <<>>
      has_soa == \E i \in DOMAIN zone.records : zone.records[i].record_type = <<"S","O","A">>
      has_ns == \E i \in DOMAIN zone.records : zone.records[i].record_type = <<"N","S">>
      e4 == IF ~has_soa THEN << <<"Zone is missing SOA record">> >> ELSE <<>>
      e5 == IF ~has_ns THEN << <<"Zone is missing NS record(s)">> >> ELSE <<>>
      e6 == RecordErrors(zone.records)
      cnames == SelectSeq(zone.records, LAMBDA r : r.record_type = <<"C","N","A","M","E">>)
      names == [i \in DOMAIN cnames |-> cnames[i].name]
      duplicates ==
        {names[i] : i \in {k \in DOMAIN names :
                             Cardinality({j \in DOMAIN names : names[j] = names[k]}) > 1}}
      dups == SetToSeq(duplicates)
      e7 == [i \in DOMAIN dups |-> <<"Duplicate CNAME for name", dups[i]>>]
  IN e1 \o e2 \o e3 \o e4 \o e5 \o e6 \o e7

----------------------------------------------------------------------------
(* validate_zone applied to one zone                                       *)

\* The longest Zone.records of the zones validated.
MaxZoneRecords == 4

ZoneSampleNames == { <<>>, <<"a",".","t">>, <<"a"," ","t">>, <<"a",".","t","\n">> }

ZoneSampleTtls == {-1, DefaultZoneTtl}

ZoneSampleRecords ==
  { DnsRecord(<<"S","O","A">>, <<"@">>, <<"x">>, DefaultRecordTtl, None, None),
    DnsRecord(<<"N","S">>, <<"@">>, <<"n","s","1",".">>, DefaultRecordTtl, None, None),
    DnsRecord(<<"C","N","A","M","E">>, <<"w","w","w">>, <<"h",".">>, DefaultRecordTtl, None, None),
    DnsRecord(<<"C","N","A","M","E">>, <<"f","t","p">>, <<"h",".">>, DefaultRecordTtl, None, None),
    DnsRecord(<<"A">>, <<"w","w","w">>, <<"1",".","2",".","3",".","4">>, DefaultRecordTtl, None, None),
    DnsRecord(<<"A">>, <<"w","w","w">>, <<"h"," ","h">>, DefaultRecordTtl, None, None) }

SeqsUpTo(S, n) == UNION {[1..k -> S] : k \in 0..n}

ZoneInputs ==
  { Zone(n, ttl, 2024060701, DefaultNameservers, recs, None) :
      n \in ZoneSampleNames, ttl \in ZoneSampleTtls,
      recs \in SeqsUpTo(ZoneSampleRecords, MaxZoneRecords) }

ZoneInit ==
  /\ StoreIdle
  /\ arg \in ZoneInputs
  /\ result = None
  /\ pc = "input"

ValidateZone ==
  /\ pc = "input"
  /\ result' = validate_zone(arg)
  /\ pc' = "validate_zone"
  /\ UNCHANGED <<arg, store_vars>>

SpecZone == ZoneInit /\ [][ValidateZone]_vars

\* Two CNAME records of z share a name.
CnameRepeats(z) ==
  \E i, j \in DOMAIN z.records :
    /\ i # j
    /\ z.records[i].record_type = <<"C","N","A","M","E">>
    /\ z.records[j].record_type = <<"C","N","A","M","E">>
    /\ z.records[i].name = z.records[j].name

\* What C4 requires of a zone apart from its name.
ZoneBodyValid(z) ==
  /\ z.ttl >= 0
  /\ \E i \in DOMAIN z.records : z.records[i].record_type = <<"S","O","A">>
  /\ \E i \in DOMAIN z.records : z.records[i].record_type = <<"N","S">>
  /\ \A i \in DOMAIN z.records : validate_record(z.records[i]) = <<>>
  /\ ~CnameRepeats(z)

\* C4: validate_zone(z) is empty if and only if z.name is non-empty and
\* matches the class [a-zA-Z0-9._-]+, z.ttl >= 0, z.records holds an SOA and
\* an NS record, every record validates and no two CNAME records share a name.
C4_ValidateZoneIff ==
  pc = "validate_zone" =>
    ((result = <<>>) <=> (arg.name # <<>> /\ NameToken(arg.name) /\ ZoneBodyValid(arg)))

\* C4 on zone names that hold no newline.
C4_ValidateZoneIffNoNewline ==
  (pc = "validate_zone" /\ "\n" \notin Range(arg.name)) =>
    ((result = <<>>) <=> (arg.name # <<>> /\ NameToken(arg.name) /\ ZoneBodyValid(arg)))

----------------------------------------------------------------------------
(* BIND zone file export                                                   *)

\* sep.join(list)
RECURSIVE Join(_, _)
Join(list, sep) ==
  IF list = <<>> THEN <<>>
  ELSE IF Len(list) = 1 THEN list[1]
  ELSE list[1] \o sep \o Join(Tail(list), sep)

\* The sort key (r.record_type, r.name) of a precedes that of b.
KeyLess(a, b) ==
  \/ StrLess(a.record_type, b.record_type)
  \/ a.record_type = b.record_type /\ StrLess(a.name, b.name)

\* SortByKey with the sort left out: the records in insertion order.
SortByKey_NoSort(list) == list

\* list.sort(key=...) is stable: records of equal key keep their order.
RECURSIVE SortByKey(_)
SortByKey(list) ==
  IF list = <<>> THEN <<>>
  ELSE LET x == list[Len(list)]
           front == SortByKey(SubSeq(list, 1, Len(list) - 1))
           n == Cardinality({i \in DOMAIN front : ~KeyLess(x, front[i])})
       IN SubSeq(front, 1, n) \o <<x>> \o SubSeq(front, n + 1, Len(front))

\* The line of a record that is neither SOA nor NS.
RecordLine(r) ==
  IF r.priority # None
  THEN r.name \o <<" ">> \o IntToStr(r.ttl) \o <<" ","I","N"," ">> \o r.record_type \o <<" ">>
         \o IntToStr(r.priority[1]) \o <<" ">> \o r.value
  ELSE r.name \o <<" ">> \o IntToStr(r.ttl) \o <<" ","I","N"," ">> \o r.record_type \o <<" ">>
         \o r.value

\* The records of the last section, in the order they are written.
OtherRecords(zone) ==
  SortByKey(SelectSeq(zone.records, LAMBDA r : r.record_type \notin { <<"S","O","A">>, <<"N","S">> }))

\* The SOA line(s): the records of type SOA, or the synthesized line.
SoaLines(zone) ==
  LET soa_records == SelectSeq(zone.records, LAMBDA r : r.record_type = <<"S","O","A">>)
  IN IF soa_records = <<>>
     THEN << <<"@"," ">> \o IntToStr(zone.ttl) \o <<" ","I","N"," ","S","O","A"," ","n","s","1",".">> \o zone.name
               \o <<"."," ","h","o","s","t","m","a","s","t","e","r",".">> \o zone.name \o <<"."," ","("," ">> \o IntToStr(zone.serial)
               \o <<" ","3","6","0","0"," ","9","0","0"," ","6","0","4","8","0","0"," ","3","0","0"," ",")">> >>
     ELSE [i \in DOMAIN soa_records |->
             soa_records[i].name \o <<" ">> \o IntToStr(soa_records[i].ttl)
               \o <<" ","I","N"," ","S","O","A"," ">> \o soa_records[i].value]

\* The lines export_bind_format joins.
ExportLines(zone) ==
  LET header == << <<";"," ","Z","o","n","e"," ","f","i","l","e"," ","f","o","r"," ">> \o zone.name,
                   <<";"," ","G","e","n","e","r","a","t","e","d"," ","b","y"," ","b","l","a","c","k","r","o","a","d","-","z","o","n","e","-","m","a","n","a","g","e","r">>,
                   <<"$","O","R","I","G","I","N"," ">> \o zone.name \o <<".">>,
                   <<"$","T","T","L"," ">> \o IntToStr(zone.ttl),
                   <<>> >>
      ns_lines == [i \in DOMAIN zone.nameservers |->
                     <<"@"," ">> \o IntToStr(zone.ttl) \o <<" ","I","N"," ","N","S"," ">> \o zone.nameservers[i]]
      other == OtherRecords(zone)
      other_lines == [i \in DOMAIN other |-> RecordLine(other[i])]
  IN header \o SoaLines(zone) \o << <<>> >> \o ns_lines \o << <<>> >> \o other_lines

\* export_bind_format with the closing newline left out.
export_bind_format_NoFinalNewline(zone) == Join(ExportLines(zone), <<"\n">>)

export_bind_format(zone) == Join(ExportLines(zone), <<"\n">>) \o <<"\n">>

----------------------------------------------------------------------------
(* Checksum                                                                *)

\* str.encode(): the text holds ASCII characters only, one byte each.
encode(text) == [i \in DOMAIN text |-> Ord(text[i])]

\* hashlib.sha256(data).hexdigest(), taken as injective on data.
sha256_hexdigest(data) == <<"sha256", data>>

zone_checksum(zone) == sha256_hexdigest(encode(export_bind_format(zone)))

----------------------------------------------------------------------------
(* BIND zone file import                                                   *)

\* The pieces of s between the occurrences of the character c.
RECURSIVE SplitOn(_, _)
SplitOn(s, c) ==
  IF \A i \in DOMAIN s : s[i] # c THEN <<s>>
  ELSE LET k == CHOOSE i \in DOMAIN s : s[i] = c /\ \A j \in 1..(i - 1) : s[j] # c
       IN <<SubSeq(s, 1, k - 1)>> \o SplitOn(SubSeq(s, k + 1, Len(s)), c)

\* str.strip()
RECURSIVE strip(_)
strip(s) ==
  IF s = <<>> THEN s
  ELSE IF s[1] \in Whitespace THEN strip(Tail(s))
  ELSE IF s[Len(s)] \in Whitespace THEN strip(SubSeq(s, 1, Len(s) - 1))
  ELSE s

\* str.rstrip(".")
RECURSIVE rstrip_dot(_)
rstrip_dot(s) ==
  IF s # <<>> /\ s[Len(s)] = "." THEN rstrip_dot(SubSeq(s, 1, Len(s) - 1)) ELSE s

\* str.split(): the maximal runs of characters that are not whitespace.
RECURSIVE split(_)
split(s) ==
  IF s = <<>> THEN <<>>
  ELSE IF s[1] \in Whitespace THEN split(Tail(s))
  ELSE LET n == IF \A i \in DOMAIN s : s[i] \notin Whitespace THEN Len(s)
                ELSE (CHOOSE i \in DOMAIN s :
                        s[i] \in Whitespace /\ \A j \in 1..(i - 1) : s[j] \notin Whitespace) - 1
       IN <<SubSeq(s, 1, n)>> \o split(SubSeq(s, n + 1, Len(s)))

\* The default of Zone.serial and the serial save_zone stamps: YYYYMMDD01.
utc_serial(today) == today * 100 + 1

\* The default TTL import_zone_file starts from.
ImportDefaultTtl == 3600

ImportStart ==
  [zone_name |-> None, default_ttl |-> ImportDefaultTtl, records |-> <<>>,
   origin |-> None, raised |-> None]

\* One record line, of at least four tokens.
ImportRecordLine(st, parts) ==
  LET name == parts[1]
      has_ttl == isdigit(parts[2])
      ttl == IF has_ttl THEN int(parts[2]) ELSE st.default_ttl
      idx1 == IF has_ttl THEN 3 ELSE 2
      idx2 == IF upper(parts[idx1]) = <<"I","N">> THEN idx1 + 1 ELSE idx1
      rtype == upper(parts[idx2])
      value == Join(SubSeq(parts, idx2 + 1, Len(parts)), <<" ">>)
      with_priority == rtype \in { <<"M","X">>, <<"S","R","V">> }
  IN IF with_priority /\ split(value) = <<>>
     THEN [st EXCEPT !.raised = Some("IndexError")]
     ELSE LET takes == with_priority /\ isdigit(split(value)[1])
              priority == IF takes THEN Some(int(split(value)[1])) ELSE None
              value2 == IF takes THEN Join(Tail(split(value)), <<" ">>) ELSE value
          IN IF rtype # <<"S","O","A">>
             THEN [st EXCEPT !.records =
                     Append(@, DnsRecord(rtype, name, value2, ttl, priority, None))]
             ELSE st

\* One pass of the loop over the lines of the file.
ImportLine(st, raw_line) ==
  LET line == strip(raw_line)
      toks == split(line)
  IN IF st.raised # None THEN st
     ELSE IF line = <<>> \/ startswith(line, <<";">>) THEN st
     ELSE IF startswith(line, <<"$","O","R","I","G","I","N">>)
          THEN IF Len(toks) < 2 THEN [st EXCEPT !.raised = Some("IndexError")]
               ELSE LET origin == rstrip_dot(toks[2])
                    IN [st EXCEPT !.origin = Some(origin),
                                  !.zone_name = IF @ = None \/ @ = Some(<<>>)
                                                THEN Some(origin) ELSE @]
     ELSE IF startswith(line, <<"$","T","T","L">>)
          THEN IF Len(toks) < 2 THEN [st EXCEPT !.raised = Some("IndexError")]
               ELSE IF ~int_ok(toks[2]) THEN [st EXCEPT !.raised = Some("ValueError")]
               ELSE [st EXCEPT !.default_ttl = int(toks[2])]
     ELSE IF Len(toks) < 4 THEN st
     ELSE ImportRecordLine(st, toks)

RECURSIVE ImportLines(_, _)
ImportLines(st, lines) ==
  IF lines = <<>> THEN st
  ELSE ImportLines(ImportLine(st, Head(lines)), Tail(lines))

\* import_zone_file(path) with no connection: the file at path exists or
\* not, has the stem `stem` and holds `text`; `today` is the UTC date.
import_zone_file(exists, stem, text, today) ==
  IF ~exists THEN [raised |-> Some("FileNotFoundError"), zone |-> None]
  ELSE LET st == ImportLines(ImportStart, SplitOn(text, "\n"))
           zone_name == IF st.zone_name = None THEN stem ELSE st.zone_name[1]
       IN IF st.raised # None THEN [raised |-> st.raised, zone |-> None]
          ELSE [raised |-> None,
                zone |-> Zone(zone_name, st.default_ttl, utc_serial(today),
                              DefaultNameservers, st.records, None)]

----------------------------------------------------------------------------
(* export_bind_format, the round trip through import_zone_file and         *)
(* zone_checksum, applied to one zone                                      *)

\* The longest Zone.records of the zones exported.
MaxExportRecords == 3

ExportSampleRecords ==
  { DnsRecord(<<"A">>, <<"w","w","w">>, <<"1",".","2",".","3",".","4">>, DefaultRecordTtl, None, None),
    DnsRecord(<<"A">>, <<"@">>, <<"5",".","6",".","7",".","8">>, 60, None, None),
    DnsRecord(<<"M","X">>, <<"@">>, <<"m",".">>, DefaultRecordTtl, Some(10), None),
    DnsRecord(<<"T","X","T">>, <<"@">>, <<"v"," ","1">>, DefaultRecordTtl, None, None),
    DnsRecord(<<"N","S">>, <<"@">>, <<"n","s","9",".">>, DefaultRecordTtl, None, None),
    DnsRecord(<<"S","O","A">>, <<"@">>, <<"n","s","."," ","h","o","s","t","."," ","1">>, DefaultRecordTtl, None, None) }

ExportSampleNameservers == { <<>>, DefaultNameservers }

SampleDates == {20240607}

ExportInputs ==
  { Zone(<<"a",".","t">>, DefaultZoneTtl, utc_serial(d), ns, recs, None) :
      d \in SampleDates, ns \in ExportSampleNameservers,
      recs \in SeqsUpTo(ExportSampleRecords, MaxExportRecords) }

ExportInit ==
  /\ StoreIdle
  /\ arg \in ExportInputs
  /\ result = None
  /\ pc = "input"

Export ==
  /\ pc = "input"
  /\ result' = export_bind_format(arg)
  /\ pc' = "export_bind_format"
  /\ UNCHANGED <<arg, store_vars>>

\* The exported text is written to a file, the file is imported.
RoundTrip ==
  /\ pc = "input"
  /\ \E d \in SampleDates :
       result' = import_zone_file(TRUE, <<"z">>, export_bind_format(arg), d)
  /\ pc' = "import_zone_file"
  /\ UNCHANGED <<arg, store_vars>>

\* The zones one change away from z: the value of one record changed, one
\* record appended, one record removed.
ValueChanged(z) ==
  { [z EXCEPT !.records[i].value = v] :
      i \in DOMAIN z.records, v \in { <<"9",".","9",".","9",".","9">>, <<"h",".">> } }

RecordAdded(z) == { [z EXCEPT !.records = Append(@, r)] : r \in ExportSampleRecords }

RecordRemoved(z) ==
  { [z EXCEPT !.records = SubSeq(@, 1, i - 1) \o SubSeq(@, i + 1, Len(@))] :
      i \in DOMAIN z.records }

\* zone_checksum of the zone, twice, and of the zone after one change.
Checksum ==
  /\ pc = "input"
  /\ \E z2 \in ValueChanged(arg) \cup RecordAdded(arg) \cup RecordRemoved(arg) :
       result' = [changed |-> z2,
                  first |-> zone_checksum(arg),
                  second |-> zone_checksum(arg),
                  after |-> zone_checksum(z2)]
  /\ pc' = "zone_checksum"
  /\ UNCHANGED <<arg, store_vars>>

SpecExport == ExportInit /\ [][Export \/ RoundTrip \/ Checksum]_vars

\* The set of records of a zone that are not SOA, on the fields compared.
NonSoaRecordSet(z) ==
  { <<z.records[i].record_type, z.records[i].name, z.records[i].value,
      z.records[i].ttl, z.records[i].priority>> :
      i \in {k \in DOMAIN z.records : z.records[k].record_type # <<"S","O","A">>} }

\* C1: importing the text produced by export_bind_format(z) yields a zone
\* whose set of non-SOA records, compared on (type, name, value, ttl,
\* priority), equals the set of non-SOA records of z.
C1_RoundTrip ==
  pc = "import_zone_file" =>
    /\ result.raised = None
    /\ NonSoaRecordSet(result.zone) = NonSoaRecordSet(arg)

\* C6: the text returned by export_bind_format ends with exactly one
\* newline: its last character is a newline and the one before it is not.
C6_OneTrailingNewline ==
  pc = "export_bind_format" =>
    /\ result[Len(result)] = "\n"
    /\ result[Len(result) - 1] # "\n"

HasOtherRecords(z) ==
  \E i \in DOMAIN z.records : z.records[i].record_type \notin { <<"S","O","A">>, <<"N","S">> }

\* C6, amended: the text returned by export_bind_format ends with a
\* newline; the character before it is a newline too when the zone has no
\* record of a type other than SOA and NS (the blank line that closes the
\* NS section is then the last line), and is not a newline when the zone
\* has such a record and the value of the last one written does not end in
\* a newline.
C6_TrailingNewlines ==
  pc = "export_bind_format" =>
    /\ result[Len(result)] = "\n"
    /\ ~HasOtherRecords(arg) => result[Len(result) - 1] = "\n"
    /\ (/\ HasOtherRecords(arg)
        /\ LET v == OtherRecords(arg)[Len(OtherRecords(arg))].value
           IN v = <<>> \/ v[Len(v)] # "\n")
         => result[Len(result) - 1] # "\n"

\* The zone with no records and the default nameservers: the text ends with
\* the last NS line, the blank line and the closing newline.
C6_Witness ==
  /\ pc = "export_bind_format"
  /\ arg.records = <<>>
  /\ arg.nameservers = DefaultNameservers
  /\ SubSeq(result, Len(result) - 4, Len(result)) = <<"i","o",".","\n","\n">>

\* The lines of the exported text that follow the NS section: the text
\* ends with a newline, so the piece after the last newline is no line.
OtherSection(zone, text) ==
  LET lines == SplitOn(text, "\n")
      skip == 5 + Len(SoaLines(zone)) + 1 + Len(zone.nameservers) + 1
  IN SubSeq(lines, skip + 1, Len(lines) - 1)

\* <name> <ttl> IN <type> [<priority> ]<value>
ExpectedLine(r) ==
  Join(<<r.name, IntToStr(r.ttl), <<"I","N">>, r.record_type>>
         \o (IF r.priority # None THEN <<IntToStr(r.priority[1])>> ELSE <<>>)
         \o <<r.value>>,
       <<" ">>)

OtherIndices(z) ==
  {i \in DOMAIN z.records : z.records[i].record_type \notin { <<"S","O","A">>, <<"N","S">> }}

\* C7: the section after the NS lines holds exactly one line per record of
\* zone.records that is neither SOA nor NS, in non-decreasing order of
\* (record_type, name) whatever the order of zone.records, and a line holds
\* the priority token exactly when its record carries a priority.
C7_OtherSectionSorted ==
  pc = "export_bind_format" =>
    LET section == OtherSection(arg, result)
        idx == OtherIndices(arg)
    IN /\ Len(section) = Cardinality(idx)
       /\ \E p \in [DOMAIN section -> idx] :
            /\ \A i, j \in DOMAIN section : i # j => p[i] # p[j]
            /\ \A i \in DOMAIN section : section[i] = ExpectedLine(arg.records[p[i]])
            /\ \A i \in DOMAIN section :
                 i < Len(section) => ~KeyLess(arg.records[p[i + 1]], arg.records[p[i]])

\* A zone whose records are not in export order: the MX record first, then
\* two A records with the names out of order.
C7_Witness ==
  /\ pc = "export_bind_format"
  /\ Len(arg.records) = 3
  /\ arg.records[1].record_type = <<"M","X">> /\ arg.records[1].priority # None
  /\ arg.records[2].record_type = <<"A">> /\ arg.records[2].name = <<"w","w","w">>
  /\ arg.records[3].record_type = <<"A">> /\ arg.records[3].name = <<"@">>
  /\ Len(OtherSection(arg, result)) = 3

\* C10: a zone obtained by changing the value of one record or by adding or
\* removing one record has a different zone_checksum, and zone_checksum
\* called twice on the unchanged zone gives the same digest.
C10_ChecksumChanges ==
  pc = "zone_checksum" =>
    /\ result.after # result.first
    /\ result.second = result.first

----------------------------------------------------------------------------
(* import_zone_file applied to the text of one file                        *)

\* The most lines of an imported file.
MaxImportLines == 2

ImportSampleLines ==
  { <<>>, <<";"," ","c">>, <<"$","O","R","I","G","I","N"," ","a",".","t",".">>, <<"$","O","R","I","G","I","N">>, <<"$","T","T","L"," ","6","0">>, <<"$","T","T","L"," ","x">>, <<"$","T","T","L">>,
    <<"a"," ","b"," ","c">>, <<"w","w","w"," ","I","N"," ","A"," ","1",".","2",".","3",".","4">>, <<"w","w","w"," ","3","0","0"," ","I","N"," ","A">>, <<"m"," ","i","n"," ","m","x"," ","1","0"," ","m",".">>,
    <<"m"," ","3","0","0"," ","I","N"," ","M","X">>, <<"@"," ","3","0","0"," ","I","N"," ","S","O","A"," ","x"," ","y">> }

ImportInputs ==
  { [exists |-> e, stem |-> <<"z">>,
     text |-> Join(lines, <<"\n">>) \o (IF lines = <<>> THEN <<>> ELSE <<"\n">>)] :
      e \in BOOLEAN, lines \in SeqsUpTo(ImportSampleLines, MaxImportLines) }

ImportInit ==
  /\ StoreIdle
  /\ arg \in ImportInputs
  /\ result = None
  /\ pc = "input"

Import ==
  /\ pc = "input"
  /\ \E d \in SampleDates :
       result' = import_zone_file(arg.exists, arg.stem, arg.text, d)
  /\ pc' = "import_zone_file"
  /\ UNCHANGED <<arg, store_vars>>

SpecImport == ImportInit /\ [][Import]_vars

\* The lines of a text that hold at least four tokens.
RecordLikeLines(text) ==
  SelectSeq(SplitOn(text, "\n"), LAMBDA l : Len(split(l)) >= 4)

\* C2: for every text of an existing source, whatever its lines contain,
\* import_zone_file returns a Zone without raising, and a line it cannot
\* interpret contributes no record.
C2_ImportNeverRaises ==
  (pc = "import_zone_file" /\ arg.exists) =>
    /\ result.raised = None
    /\ Len(result.zone.records) <= Len(RecordLikeLines(arg.text))

----------------------------------------------------------------------------
(* Provider sync                                                           *)

SupportedProviders == { <<"c","l","o","u","d","f","l","a","r","e">>, <<"r","o","u","t","e","5","3">>, <<"d","i","g","i","t","a","l","o","c","e","a","n">> }

\* dict[key] = value on a dict kept as the list of its (key, value) pairs
\* in insertion order: a key already present keeps its place and takes the
\* new value.
DictSet(dict, key, value) ==
  IF \E i \in DOMAIN dict : dict[i][1] = key
  THEN [i \in DOMAIN dict |-> IF dict[i][1] = key THEN <<key, value>> ELSE dict[i]]
  ELSE Append(dict, <<key, value>>)

\* {f"{r.record_type}:{r.name}": r for r in recs}
RECURSIVE DictByTypeName(_)
DictByTypeName(recs) ==
  IF recs = <<>> THEN <<>>
  ELSE LET r == recs[Len(recs)]
       IN DictSet(DictByTypeName(SubSeq(recs, 1, Len(recs) - 1)),
                  r.record_type \o <<":">> \o r.name, r)

\* The summary is a dict: the key "total_changes" is set on the last path
\* only.
sync_with_provider(zone, provider, dry_run) ==
  LET summary == [provider |-> provider, zone |-> zone.name, dry_run |-> dry_run,
                  records_to_create |-> <<>>, records_to_update |-> <<>>,
                  records_to_delete |-> <<>>, errors |-> <<>>]
      existing_stub ==
        DictByTypeName(SelectSeq(zone.records,
                         LAMBDA r : r.record_type \in { <<"A">>, <<"A","A","A","A">>, <<"C","N","A","M","E">> }))
      to_create == [i \in DOMAIN existing_stub |->
                      [type |-> existing_stub[i][2].record_type,
                       name |-> existing_stub[i][2].name,
                       value |-> existing_stub[i][2].value,
                       ttl |-> existing_stub[i][2].ttl]]
  IN IF provider \notin SupportedProviders
     THEN [summary EXCEPT !.errors = Append(@, <<"Unsupported provider", provider>>)]
     ELSE [k \in DOMAIN summary \cup {"total_changes"} |->
             CASE k = "records_to_create" -> to_create
               [] k = "total_changes" ->
                    Len(to_create) + Len(summary.records_to_update)
                      + Len(summary.records_to_delete)
               [] OTHER -> summary[k]]

----------------------------------------------------------------------------
(* sync_with_provider applied to one zone and one provider name            *)

\* The longest Zone.records of the zones synced.
MaxSyncRecords == 3

SyncSampleRecords ==
  { DnsRecord(<<"A">>, <<"w","w","w">>, <<"1",".","1",".","1",".","1">>, DefaultRecordTtl, None, None),
    DnsRecord(<<"A">>, <<"w","w","w">>, <<"2",".","2",".","2",".","2">>, DefaultRecordTtl, None, None),
    DnsRecord(<<"A","A","A","A">>, <<"w","w","w">>, <<":",":","1">>, DefaultRecordTtl, None, None),
    DnsRecord(<<"C","N","A","M","E">>, <<"f","t","p">>, <<"h",".">>, DefaultRecordTtl, None, None),
    DnsRecord(<<"M","X">>, <<"@">>, <<"m",".">>, DefaultRecordTtl, Some(10), None) }

SyncInputs ==
  { [zone |-> Zone(<<"a",".","t">>, DefaultZoneTtl, utc_serial(d), DefaultNameservers, recs, None),
     provider |-> p, dry_run |-> dry] :
      d \in SampleDates,
      recs \in SeqsUpTo(SyncSampleRecords, MaxSyncRecords),
      p \in SupportedProviders \cup { <<"u","n","k","n","o","w","n","-","h","o","s","t">> },
      dry \in BOOLEAN }

SyncInit ==
  /\ StoreIdle
  /\ arg \in SyncInputs
  /\ result = None
  /\ pc = "input"

Sync ==
  /\ pc = "input"
  /\ result' = sync_with_provider(arg.zone, arg.provider, arg.dry_run)
  /\ pc' = "sync_with_provider"
  /\ UNCHANGED <<arg, store_vars>>

SpecSync == SyncInit /\ [][Sync]_vars

\* C8: for every zone and every provider name, supported or not, the
\* summary reports a total_changes equal to the sum of the lengths of the
\* three change lists; for an unsupported provider the errors list has
\* exactly one entry, the three lists are empty and total_changes is 0.
C8_TotalChanges ==
  pc = "sync_with_provider" =>
    /\ "total_changes" \in DOMAIN result
    /\ result.total_changes = Len(result.records_to_create)
          + Len(result.records_to_update) + Len(result.records_to_delete)
    /\ arg.provider \notin SupportedProviders =>
         /\ Len(result.errors) = 1
         /\ result.records_to_create = <<>>
         /\ result.records_to_update = <<>>
         /\ result.records_to_delete = <<>>
         /\ result.total_changes = 0

AddressIndices(z) ==
  {i \in DOMAIN z.records : z.records[i].record_type \in { <<"A">>, <<"A","A","A","A">>, <<"C","N","A","M","E">> }}

\* C9: for a supported provider, records_to_create holds one entry for
\* every record of zone.records of type A, AAAA or CNAME, also when several
\* of them share type and name, and no entry for a record of another type.
C9_OneEntryPerRecord ==
  (pc = "sync_with_provider" /\ arg.provider \in SupportedProviders) =>
    /\ Len(result.records_to_create) = Cardinality(AddressIndices(arg.zone))
    /\ \A i \in DOMAIN result.records_to_create :
         \E k \in AddressIndices(arg.zone) :
           /\ result.records_to_create[i].type = arg.zone.records[k].record_type
           /\ result.records_to_create[i].name = arg.zone.records[k].name
           /\ result.records_to_create[i].value = arg.zone.records[k].value
           /\ result.records_to_create[i].ttl = arg.zone.records[k].ttl

----------------------------------------------------------------------------
(* The store: tables zones and records of one SQLite database, one         *)
(* connection from get_db, and the Zone objects of the caller              *)

\* The most Zone objects the caller constructs.
MaxObjects == 2

\* The most rows ever inserted into zones.
MaxZoneSeq == 2

\* The most rows ever inserted into records.
MaxRecordSeq == 2

\* The longest Zone.records of a Zone object of the caller.
MaxObjRecords == 2

StoreZoneNames == { <<"a",".","t">>, <<"b",".","t">> }

\* (record_type, name, value, priority) as passed to add_record.
StoreSampleRecords ==
  { << <<"a">>, <<"w","w","w">>, <<"1",".","2",".","3",".","4">>, None >>,
    << <<"M","X">>, <<"@">>, <<"m",".">>, None >> }

\* _init_schema creates both tables empty.  SQLite enforces REFERENCES ...
\* ON DELETE CASCADE only on a connection whose PRAGMA foreign_keys is on;
\* get_db does not set it, so it has the default of the SQLite build: off,
\* or on in a library compiled with SQLITE_DEFAULT_FOREIGN_KEYS=1.
Init ==
  /\ foreign_keys \in BOOLEAN
  /\ db_zones = {}
  /\ db_records = {}
  /\ zone_seq = 0
  /\ record_seq = 0
  /\ zobj = <<>>
  /\ ret = [op |-> "get_db", raised |-> None, value |-> None]
  /\ arg = None
  /\ result = None
  /\ pc = "store"

\* Zone(name=name): a new object with the defaults of the dataclass.
NewZone(name, today) ==
  /\ Len(zobj) < MaxObjects
  /\ zobj' = Append(zobj, Zone(name, DefaultZoneTtl, utc_serial(today),
                               DefaultNameservers, <<>>, None))
  /\ ret' = [op |-> "Zone", raised |-> None, value |-> Len(zobj) + 1]
  /\ UNCHANGED <<foreign_keys, db_zones, db_records, zone_seq, record_seq, pure_vars>>

\* save_zone(zobj[h], conn).  The INSERT raises on a name already in zones
\* (name is UNIQUE); the UPDATE changes the rows with the id, if any.
save_zone(h, today) ==
  LET zone == zobj[h]
  IN IF zone.zone_id = None
     THEN IF \E row \in db_zones : row.name = zone.name
          THEN /\ ret' = [op |-> "save_zone", raised |-> Some("IntegrityError"),
                          value |-> None]
               /\ UNCHANGED <<db_zones, zone_seq, zobj>>
          ELSE /\ zone_seq < MaxZoneSeq
               /\ zone_seq' = zone_seq + 1
               /\ db_zones' = db_zones \cup
                    {[id |-> zone_seq + 1, name |-> zone.name, ttl |-> zone.ttl,
                      serial |-> zone.serial, nameservers |-> zone.nameservers]}
               /\ zobj' = [zobj EXCEPT ![h].zone_id = Some(zone_seq + 1)]
               /\ ret' = [op |-> "save_zone", raised |-> None, value |-> Some(h)]
     ELSE /\ zobj' = [zobj EXCEPT ![h].serial = utc_serial(today)]
          /\ db_zones' =
               {IF row.id = zone.zone_id[1]
                THEN [row EXCEPT !.ttl = zone.ttl, !.serial = utc_serial(today),
                                 !.nameservers = zone.nameservers]
                ELSE row : row \in db_zones}
          /\ ret' = [op |-> "save_zone", raised |-> None, value |-> Some(h)]
          /\ UNCHANGED zone_seq

SaveZone(h, today) ==
  /\ h \in DOMAIN zobj
  /\ save_zone(h, today)
  /\ UNCHANGED <<foreign_keys, db_records, record_seq, pure_vars>>

\* The rows of records of one zone, as a list by id (the SELECT has no
\* ORDER BY; SQLite walks idx_records_zone, which is in rowid order).
RECURSIVE RowsById(_)
RowsById(rows) ==
  IF rows = {} THEN <<>>
  ELSE LET first == CHOOSE r \in rows : \A q \in rows : r.id <= q.id
       IN <<first>> \o RowsById(rows \ {first})

\* load_zone(name, conn): None, or a new Zone object with the records of
\* the zone.
load_zone(name) ==
  IF ~\E row \in db_zones : row.name = name THEN None
  ELSE LET row == CHOOSE r \in db_zones : r.name = name
           recs == RowsById({r \in db_records : r.zone_id = row.id})
       IN Some(Zone(row.name, row.ttl, row.serial, row.nameservers,
                    [i \in DOMAIN recs |->
                       DnsRecord(recs[i].record_type, recs[i].name, recs[i].value,
                                 recs[i].ttl, recs[i].priority, Some(recs[i].id))],
                    Some(row.id)))

LoadZone(name) ==
  /\ ret' = [op |-> "load_zone", raised |-> None, value |-> load_zone(name)]
  /\ UNCHANGED <<foreign_keys, db_zones, db_records, zone_seq, record_seq, zobj,
                 pure_vars>>

\* delete_zone(name, conn): DELETE FROM zones WHERE name=?; the rows of
\* records that reference a deleted zone go with it only when the
\* connection enforces foreign keys.  ret.ids are the ids of the deleted
\* rows of zones.
delete_zone(name) ==
  LET gone == {row \in db_zones : row.name = name}
      ids == {row.id : row \in gone}
  IN /\ db_zones' = db_zones \ gone
     /\ db_records' = IF foreign_keys
                      THEN {r \in db_records : r.zone_id \notin ids}
                      ELSE db_records
     /\ ret' = [op |-> "delete_zone", raised |-> None, value |-> (gone # {}),
                ids |-> ids]

DeleteZone(name) ==
  /\ delete_zone(name)
  /\ UNCHANGED <<foreign_keys, zone_seq, record_seq, zobj, pure_vars>>

add_record_AppendFirst(h, record_type, name, value, ttl, priority, conn) ==
  LET rec == DnsRecord(upper(record_type), name, value, ttl, priority, None)
      errs == validate_record(rec)
  IN /\ zobj' = [zobj EXCEPT ![h].records = Append(@, rec)]
     /\ ret' = [op |-> "add_record",
                raised |-> IF errs # <<>> THEN Some("ValueError") ELSE None,
                value |-> None]
     /\ UNCHANGED <<db_records, record_seq>>

\* add_record(zobj[h], record_type, name, value, ttl, priority, conn), conn
\* being the connection or None.  The record is appended to zone.records
\* before the INSERT, which raises when the connection enforces foreign
\* keys and zones has no row with the zone's id.
add_record(h, record_type, name, value, ttl, priority, conn) ==
  LET zone == zobj[h]
      rec == DnsRecord(upper(record_type), name, value, ttl, priority, None)
      errs == validate_record(rec)
  IN IF errs # <<>>
     THEN /\ ret' = [op |-> "add_record", raised |-> Some("ValueError"), value |-> None]
          /\ UNCHANGED <<db_records, record_seq, zobj>>
     ELSE IF conn /\ zone.zone_id # None
     THEN IF foreign_keys /\ ~\E row \in db_zones : row.id = zone.zone_id[1]
          THEN /\ zobj' = [zobj EXCEPT ![h].records = Append(@, rec)]
               /\ ret' = [op |-> "add_record", raised |-> Some("IntegrityError"),
                          value |-> None]
               /\ UNCHANGED <<db_records, record_seq>>
          ELSE /\ record_seq < MaxRecordSeq
               /\ record_seq' = record_seq + 1
               /\ db_records' = db_records \cup
                    {[id |-> record_seq + 1, zone_id |-> zone.zone_id[1],
                      record_type |-> rec.record_type, name |-> rec.name,
                      value |-> rec.value, ttl |-> rec.ttl, priority |-> rec.priority]}
               /\ zobj' = [zobj EXCEPT ![h].records =
                             Append(@, [rec EXCEPT !.record_id = Some(record_seq + 1)])]
               /\ ret' = [op |-> "add_record", raised |-> None,
                          value |-> Some(record_seq + 1)]
     ELSE /\ zobj' = [zobj EXCEPT ![h].records = Append(@, rec)]
          /\ ret' = [op |-> "add_record", raised |-> None, value |-> None]
          /\ UNCHANGED <<db_records, record_seq>>

AddRecord(h, sample, conn) ==
  /\ h \in DOMAIN zobj
  /\ Len(zobj[h].records) < MaxObjRecords
  /\ add_record(h, sample[1], sample[2], sample[3], DefaultRecordTtl, sample[4], conn)
  /\ UNCHANGED <<foreign_keys, db_zones, zone_seq, pure_vars>>

remove_record_KeepRow(h, record_id, conn) ==
  LET zone == zobj[h]
      kept == SelectSeq(zone.records, LAMBDA r : r.record_id # Some(record_id))
  IN /\ zobj' = [zobj EXCEPT ![h].records = kept]
     /\ db_records' = db_records
     /\ ret' = [op |-> "remove_record", raised |-> None,
                value |-> Len(kept) < Len(zone.records)]

\* remove_record(zobj[h], record_id, conn)
remove_record(h, record_id, conn) ==
  LET zone == zobj[h]
      before == Len(zone.records)
      kept == SelectSeq(zone.records, LAMBDA r : r.record_id # Some(record_id))
      removed == Len(kept) < before
  IN /\ zobj' = [zobj EXCEPT ![h].records = kept]
     /\ db_records' = IF removed /\ conn
                      THEN {r \in db_records : r.id # record_id}
                      ELSE db_records
     /\ ret' = [op |-> "remove_record", raised |-> None, value |-> removed]

RemoveRecord(h, record_id, conn) ==
  /\ h \in DOMAIN zobj
  /\ remove_record(h, record_id, conn)
  /\ UNCHANGED <<foreign_keys, db_zones, zone_seq, record_seq, pure_vars>>

Next ==
  \/ \E name \in StoreZoneNames, today \in SampleDates : NewZone(name, today)
  \/ \E h \in 1..MaxObjects, today \in SampleDates : SaveZone(h, today)
  \/ \E name \in StoreZoneNames : LoadZone(name)
  \/ \E name \in StoreZoneNames : DeleteZone(name)
  \/ \E h \in 1..MaxObjects, sample \in StoreSampleRecords, conn \in BOOLEAN :
       AddRecord(h, sample, conn)
  \/ \E h \in 1..MaxObjects, record_id \in 1..MaxRecordSeq, conn \in BOOLEAN :
       RemoveRecord(h, record_id, conn)

Spec == Init /\ [][Next]_vars

\* C3: after delete_zone(name) returns true, the store holds no row of
\* records whose zone_id is the id of the deleted zone, however many
\* records were added to that zone before.
C3_CascadingDelete ==
  (ret.op = "delete_zone" /\ ret.value) =>
    \A r \in db_records : r.zone_id \notin ret.ids

----------------------------------------------------------------------------
(* The store used through one Zone object                                  *)

\* What add_record is called with here: the samples of the store, and
\* records that validate_record rejects for each of its reasons.
OneSampleRecords ==
  StoreSampleRecords \cup
    { << <<"s","r","v">>, <<"_","s">>, <<"t",".">>, None >>,
      << <<"A">>, <<"w","w","w">>, <<"1",".","2",".","3">>, None >>,
      << <<"c","n","a","m","e">>, <<"w","w","w">>, <<"a"," ","b">>, None >>,
      << <<"X">>, <<"w","w","w">>, <<"v">>, None >>,
      << <<"T","X","T">>, <<>>, <<"v">>, None >>,
      << <<"T","X","T">>, <<"w","w","w">>, <<>>, None >>,
      << <<"M","X">>, <<"@">>, <<>>, Some(10) >> }

\* get_db(), then Zone(name=name).
OneInit ==
  /\ foreign_keys \in BOOLEAN
  /\ db_zones = {}
  /\ db_records = {}
  /\ zone_seq = 0
  /\ record_seq = 0
  /\ \E name \in StoreZoneNames, today \in SampleDates :
       zobj = << Zone(name, DefaultZoneTtl, utc_serial(today),
                      DefaultNameservers, <<>>, None) >>
  /\ ret = [op |-> "Zone", raised |-> None, value |-> 1]
  /\ arg = None
  /\ result = None
  /\ pc = "store"

OneNext ==
  \/ \E today \in SampleDates : SaveZone(1, today)
  \/ \E name \in StoreZoneNames : LoadZone(name)
  \/ \E name \in StoreZoneNames : DeleteZone(name)
  \/ \E sample \in OneSampleRecords, conn \in BOOLEAN : AddRecord(1, sample, conn)
  \/ \E record_id \in 1..MaxRecordSeq, conn \in BOOLEAN : RemoveRecord(1, record_id, conn)

SpecOne == OneInit /\ [][OneNext]_vars

\* The record add_record builds from a sample fails validate_record.
FailsValidation(sample) ==
  validate_record(DnsRecord(upper(sample[1]), sample[2], sample[3],
                            DefaultRecordTtl, sample[4], None)) # <<>>

\* C11: a call of add_record with a record that fails validate_record (MX
\* or SRV with no priority among them) raises ValueError, and zone.records
\* of the object and the rows of records in the store are after the call
\* what they were before it, with or without a connection.
C11_RejectedBeforeChange ==
  [][\A sample \in OneSampleRecords, conn \in BOOLEAN :
       (/\ ret'.op = "add_record"
        /\ AddRecord(1, sample, conn)
        /\ FailsValidation(sample)) =>
         /\ ret'.raised = Some("ValueError")
         /\ zobj' = zobj
         /\ db_records' = db_records]_vars

\* add_record has just raised ValueError on a saved zone that holds a
\* record, in memory and in the store.
C11_Witness ==
  /\ ret.op = "add_record"
  /\ ret.raised = Some("ValueError")
  /\ zobj[1].zone_id # None
  /\ zobj[1].records # <<>>
  /\ \E r \in db_records : r.zone_id = zobj[1].zone_id[1]

----------------------------------------------------------------------------
(* Operations on zones and records the store does not hold                 *)

\* zones has a row for the id the Zone object carries.
HasZoneRow(h) == \E row \in db_zones : row.id = zobj[h].zone_id[1]

\* C12: in any state the store operations lead to, a call that refers to a
\* zone or record the store does not hold tells its caller so: load_zone
\* of a name without a row returns None, delete_zone of it returns False,
\* save_zone of a Zone object whose row is gone and add_record with the
\* connection on such an object raise, and remove_record of an id that
\* neither the store nor the object holds returns False.
C12_AbsenceReported ==
  [][/\ \A name \in StoreZoneNames :
          (/\ ret'.op = "load_zone"
           /\ LoadZone(name)
           /\ ~\E row \in db_zones : row.name = name) => ret'.value = None
     /\ \A name \in StoreZoneNames :
          (/\ ret'.op = "delete_zone"
           /\ DeleteZone(name)
           /\ ~\E row \in db_zones : row.name = name) => ret'.value = FALSE
     /\ \A h \in DOMAIN zobj, today \in SampleDates :
          (/\ ret'.op = "save_zone"
           /\ SaveZone(h, today)
           /\ zobj[h].zone_id # None
           /\ ~HasZoneRow(h)) => ret'.raised # None
     /\ \A h \in DOMAIN zobj, sample \in StoreSampleRecords :
          (/\ ret'.op = "add_record"
           /\ AddRecord(h, sample, TRUE)
           /\ zobj[h].zone_id # None
           /\ ~HasZoneRow(h)) => ret'.raised # None
     /\ \A h \in DOMAIN zobj, record_id \in 1..MaxRecordSeq, conn \in BOOLEAN :
          (/\ ret'.op = "remove_record"
           /\ RemoveRecord(h, record_id, conn)
           /\ ~\E r \in db_records : r.id = record_id
           /\ ~\E i \in DOMAIN zobj[h].records :
                 zobj[h].records[i].record_id = Some(record_id)) =>
            ret'.value = FALSE]_vars

----------------------------------------------------------------------------
(* Zones saved with no records, then changed through the connection        *)

\* save_zone is called on objects that hold no record, and add_record and
\* remove_record are called with the connection on objects that were saved.
SavedNext ==
  \/ \E name \in StoreZoneNames, today \in SampleDates : NewZone(name, today)
  \/ \E h \in 1..MaxObjects, today \in SampleDates :
       /\ h \in DOMAIN zobj
       /\ zobj[h].records = <<>>
       /\ SaveZone(h, today)
  \/ \E name \in StoreZoneNames : LoadZone(name)
  \/ \E h \in 1..MaxObjects, sample \in OneSampleRecords :
       /\ h \in DOMAIN zobj
       /\ zobj[h].zone_id # None
       /\ AddRecord(h, sample, TRUE)
  \/ \E h \in 1..MaxObjects, record_id \in 1..MaxRecordSeq :
       /\ h \in DOMAIN zobj
       /\ zobj[h].zone_id # None
       /\ RemoveRecord(h, record_id, TRUE)

SpecSaved == Init /\ [][SavedNext]_vars

\* C13: for every saved Zone object, load_zone of its name returns a zone,
\* and the records of that zone are the records of zone.records, in the
\* same order and equal in record id, type, name, value, ttl and priority.
C13_LoadedIsMemory ==
  \A h \in DOMAIN zobj :
    zobj[h].zone_id # None =>
      /\ load_zone(zobj[h].name) # None
      /\ load_zone(zobj[h].name)[1].records = zobj[h].records

\* remove_record has just removed one of two records of a saved zone.
C13_Witness ==
  /\ ret.op = "remove_record"
  /\ ret.value
  /\ \E h \in DOMAIN zobj :
       /\ zobj[h].zone_id # None
       /\ Len(zobj[h].records) = 1
       /\ zobj[h].records[1].record_id = Some(MaxRecordSeq)

====
